---- MODULE Spec2Model ----
(***************************************************************************)
(* Model of libaba/hooks.cc: the syscall filter (safe_hook), the operation *)
(* encoders (create_*_op), the descriptor resolver (marshal_fds) and the   *)
(* elevation negotiation (hook, get_credential).                           *)
(*                                                                         *)
(* One intercepted syscall is one "attempt".  The two daemons, the kernel  *)
(* and the filesystem are the environment: what they answer is an input of *)
(* the action that consumes the answer.  An action runs the code from one  *)
(* blocking receive to the next (or to the return of safe_hook).           *)
(***************************************************************************)
EXTENDS Integers, Sequences, FiniteSets, TLC

----------------------------------------------------------------------------
(* Bounds of the model *)

\* number of intercepted syscalls in one behaviour
MaxAttempts == 2
\* longest argument list of an arbitrary Operation given to marshal_fds
MaxArgs == 3

----------------------------------------------------------------------------
(* Program constants (x86-64 Linux values of the names the source uses) *)

SYS_open == 2
SYS_access == 21
SYS_socket == 41
SYS_bind == 49
SYS_unlink == 87
SYS_openat == 257
SYS_unlinkat == 263
SYS_faccessat == 269

EACCES == 13
EPERM == 1
AT_FDCWD == -100
X_OK == 1

\* the eight syscall kinds the hook can encode (hook's switch)
HookKinds ==
    {SYS_open, SYS_openat, SYS_unlink, SYS_unlinkat,
     SYS_access, SYS_faccessat, SYS_socket, SYS_bind}

\* message-type tags of the two protocols (guardo.proto / guardian_agent.proto)
CHALLENGE_REQUEST == "CHALLENGE_REQUEST"
CHALLENGE_RESPONSE == "CHALLENGE_RESPONSE"
CREDENTIAL_REQUEST == "CREDENTIAL_REQUEST"
CREDENTIAL_RESPONSE == "CREDENTIAL_RESPONSE"
ELEVATION_REQUEST == "ELEVATION_REQUEST"
ELEVATION_RESPONSE == "ELEVATION_RESPONSE"

\* the two endpoints: /tmp/.guardo-sock and <runtime dir>/.agent-guard-sock
GUARDO_SOCK_NAME == "guardo"
AGENT_GUARD_SOCK_NAME == "agent"

----------------------------------------------------------------------------
(* The Operation message: syscall_num and an ordered list of Arg, each Arg *)
(* a oneof; DirFd is a oneof of fd / path; Socket holds an fd.             *)

IntArg(n) == [kind |-> "int_arg", int_arg |-> n]
StringArg(s) == [kind |-> "string_arg", string_arg |-> s]
BytesArg(b) == [kind |-> "bytes_arg", bytes_arg |-> b]
DirFdOfFd(fd) == [kind |-> "dir_fd_arg", form |-> "fd", fd |-> fd]
DirFdOfPath(p) == [kind |-> "dir_fd_arg", form |-> "path", path |-> p]
DirFdNotSet == [kind |-> "dir_fd_arg", form |-> "not_set"]
SocketOfFd(fd) == [kind |-> "socket_arg", has_fd |-> TRUE, fd |-> fd]
\* a Socket after clear_fd(): the field is absent and reads as the default
SocketCleared == [kind |-> "socket_arg", has_fd |-> FALSE, fd |-> 0]

\* a default-constructed Operation (hook line 207) after set_syscall_num
NewOperation(syscall_number) == [syscall_num |-> syscall_number, args |-> <<>>]

----------------------------------------------------------------------------
(* The caller's memory behind the raw pointer arguments *)

\* addresses of a path string and of a socket address in the caller's memory
PathPtrs == {1000}
SockaddrPtrs == {2000}

\* (char*)arg read as a C string
CString(ptr) == IF ptr \in PathPtrs THEN "secret" ELSE ""
\* std::string((const char*)addr, addrlen): exactly addrlen bytes from addr
SockaddrBytes(ptr, addrlen) == SubSeq(<<1, 0, 7>>, 1, addrlen)

\* what the filesystem answers
CurrentPath == <<"cwd", 0>>
ReadSymlink(fd) == <<"proc_self_fd", fd>>

----------------------------------------------------------------------------
(* Operation encoders *)

create_open_op(dir_fd, path, flags, mode, op) ==
    [op EXCEPT !.args = @ \o <<DirFdOfFd(dir_fd), StringArg(CString(path)),
                               IntArg(flags), IntArg(mode)>>]

create_unlink_op(dir_fd, path, flags, op) ==
    [op EXCEPT !.args = @ \o <<DirFdOfFd(dir_fd), StringArg(CString(path)),
                               IntArg(flags)>>]

\* create_access_op without the test of the execute bits (lines 89-96)
create_access_op_no_check(dir_fd, path, mode, flags, op, stat) ==
    [op |-> [op EXCEPT !.args = @ \o <<DirFdOfFd(dir_fd),
                                      StringArg(CString(path)),
                                      IntArg(mode), IntArg(flags)>>],
     ok |-> TRUE, threw |-> FALSE]

\* stat is what fs::status(path) does: "throw", or the permissions having an
\* execute bit ("exec") or none ("noexec").  Result: the op, the returned
\* bool, and whether an exception left the function.
create_access_op(dir_fd, path, mode, flags, op, stat) ==
    IF mode = X_OK /\ stat = "throw"
    THEN [op |-> op, ok |-> FALSE, threw |-> TRUE]
    ELSE IF mode = X_OK /\ stat = "noexec"
    THEN [op |-> op, ok |-> FALSE, threw |-> FALSE]
    ELSE [op |-> [op EXCEPT !.args = @ \o <<DirFdOfFd(dir_fd),
                                            StringArg(CString(path)),
                                            IntArg(mode), IntArg(flags)>>],
          ok |-> TRUE, threw |-> FALSE]

create_socket_op(domain, type, protocol, op) ==
    [op EXCEPT !.args = @ \o <<IntArg(domain), IntArg(type), IntArg(protocol)>>]

create_bind_op(sockfd, addr, addrlen, op) ==
    [op EXCEPT !.args = @ \o <<SocketOfFd(sockfd),
                               BytesArg(SockaddrBytes(addr, addrlen))>>]

----------------------------------------------------------------------------
(* marshal_fds                                                             *)
(* The state of the loop: the args (rewritten in place), the transplant    *)
(* list fds, the handle fd_cwd (<<>> is the null unique_ptr, <<n>> a       *)
(* FileDescriptor holding n) and whether an exception was thrown.          *)
(* fsenv is the filesystem: dup is what openat(AT_FDCWD, ".") returns,     *)
(* cwd_ok whether fs::current_path() succeeds, links the descriptors whose *)
(* /proc/self/fd entry fs::read_symlink can read.                          *)
(* opens lists what each call of openat(AT_FDCWD, ".") returned.           *)

\* ~FileDescriptor: the descriptors closed when the handle h is destroyed
\* (a null unique_ptr owns nothing; an invalid descriptor is not closed)
FileDescriptor_dtor(h) == IF h = <<>> \/ h[1] < 0 THEN <<>> ELSE <<h[1]>>

\* marshal_cwd with the push_back moved inside "if (!fd_cwd)": a repeated
\* sentinel adds nothing to the transplant list
marshal_cwd_push_once(st, i, fsenv) ==
    LET h == IF st.fd_cwd = <<>> THEN <<fsenv.dup>> ELSE st.fd_cwd
        pushed == IF st.fd_cwd = <<>> THEN Append(st.fds, h[1]) ELSE st.fds
        o == IF st.fd_cwd = <<>> THEN Append(st.opens, fsenv.dup) ELSE st.opens
    IN  IF st.fd_cwd = <<>> /\ fsenv.dup < 0
        THEN [st EXCEPT !.fd_cwd = h, !.opens = o, !.threw = TRUE]
        ELSE IF ~fsenv.cwd_ok
        THEN [st EXCEPT !.fd_cwd = h, !.opens = o, !.fds = pushed,
                        !.threw = TRUE]
        ELSE [st EXCEPT !.fd_cwd = h, !.opens = o, !.fds = pushed,
                        !.args[i] = DirFdOfPath(CurrentPath)]

\* marshal_cwd without the "if (!fd_cwd)" test: every sentinel opens the
\* current directory again
marshal_cwd_always_open(st, i, fsenv) ==
    LET h == <<fsenv.dup>>
        o == Append(st.opens, fsenv.dup)
    IN  IF fsenv.dup < 0
        THEN [st EXCEPT !.fd_cwd = h, !.opens = o, !.threw = TRUE]
        ELSE IF ~fsenv.cwd_ok
        THEN [st EXCEPT !.fd_cwd = h, !.opens = o, !.fds = Append(@, h[1]),
                        !.threw = TRUE]
        ELSE [st EXCEPT !.fd_cwd = h, !.opens = o, !.fds = Append(@, h[1]),
                        !.args[i] = DirFdOfPath(CurrentPath)]

\* lines 36-44: the CWD sentinel
marshal_cwd(st, i, fsenv) ==
    LET h == IF st.fd_cwd = <<>> THEN <<fsenv.dup>> ELSE st.fd_cwd
        o == IF st.fd_cwd = <<>> THEN Append(st.opens, fsenv.dup) ELSE st.opens
    IN  IF st.fd_cwd = <<>> /\ fsenv.dup < 0
        THEN [st EXCEPT !.fd_cwd = h, !.opens = o, !.threw = TRUE]
        ELSE IF ~fsenv.cwd_ok
        THEN [st EXCEPT !.fd_cwd = h, !.opens = o, !.fds = Append(@, h[1]),
                        !.threw = TRUE]
        ELSE [st EXCEPT !.fd_cwd = h, !.opens = o, !.fds = Append(@, h[1]),
                        !.args[i] = DirFdOfPath(CurrentPath)]

\* lines 45-48: any other directory descriptor
marshal_dir(st, i, fsenv) ==
    LET fd == st.args[i].fd
    IN  IF fd \notin fsenv.links
        THEN [st EXCEPT !.fds = Append(@, fd), !.threw = TRUE]
        ELSE [st EXCEPT !.fds = Append(@, fd),
                        !.args[i] = DirFdOfPath(ReadSymlink(fd))]

\* marshal_socket without sock->clear_fd()
marshal_socket_keep_fd(st, i) ==
    [st EXCEPT !.fds = Append(@, st.args[i].fd)]

\* lines 49-53: a socket
marshal_socket(st, i) ==
    [st EXCEPT !.fds = Append(@, st.args[i].fd), !.args[i] = SocketCleared]

\* lines 31-53: the body of the loop for argument i
marshal_arg(st, i, fsenv) ==
    LET arg == st.args[i]
    IN  IF arg.kind = "dir_fd_arg"
        THEN IF arg.form # "fd" THEN st
             ELSE IF arg.fd = AT_FDCWD THEN marshal_cwd(st, i, fsenv)
             ELSE marshal_dir(st, i, fsenv)
        ELSE IF arg.kind = "socket_arg" THEN marshal_socket(st, i)
        ELSE st

RECURSIVE marshal_loop(_, _, _)
marshal_loop(st, i, fsenv) ==
    IF st.threw \/ i > Len(st.args) THEN st
    ELSE marshal_loop(marshal_arg(st, i, fsenv), i + 1, fsenv)

\* marshal_fds with fd_cwd held as a plain descriptor number: nothing
\* closes it when an exception leaves the function
marshal_fds_leak(op, fds, fsenv) ==
    LET st == marshal_loop([args |-> op.args, fds |-> fds, fd_cwd |-> <<>>,
                            opens |-> <<>>, threw |-> FALSE], 1, fsenv)
    IN  [op |-> [op EXCEPT !.args = st.args], fds |-> st.fds,
         fd_cwd |-> IF st.threw THEN <<>> ELSE st.fd_cwd,
         threw |-> st.threw, opens |-> st.opens, closed |-> <<>>]

\* marshal_fds(&op, &fds): result [op, fds, fd_cwd, threw, opens, closed].
\* When an exception leaves the function the local unique_ptr (line 29) is
\* destroyed by the unwinding and nothing is returned; closed lists the
\* descriptors that closes.
marshal_fds(op, fds, fsenv) ==
    LET st == marshal_loop([args |-> op.args, fds |-> fds, fd_cwd |-> <<>>,
                            opens |-> <<>>, threw |-> FALSE], 1, fsenv)
    IN  [op |-> [op EXCEPT !.args = st.args], fds |-> st.fds,
         fd_cwd |-> IF st.threw THEN <<>> ELSE st.fd_cwd,
         threw |-> st.threw, opens |-> st.opens,
         closed |-> IF st.threw THEN FileDescriptor_dtor(st.fd_cwd) ELSE <<>>]

----------------------------------------------------------------------------
(* Transport: receiving a framed message                                   *)
(* A packet is what the peer and the socket layer deliver: io = "error"    *)
(* when read_full / recvmsg throws (short read, closed connection), else   *)
(* the tag byte, whether the payload deserializes (parses) and the message *)
(* it deserializes to.                                                     *)

\* read_expected_msg without the comparison of the tag
read_expected_msg_any_tag(pkt, expected_msg_num) ==
    IF pkt.io = "error" THEN [threw |-> TRUE, ok |-> FALSE]
    ELSE IF ~pkt.parses THEN [threw |-> FALSE, ok |-> FALSE]
    ELSE [threw |-> FALSE, ok |-> TRUE, msg |-> pkt.msg]

\* result [threw, ok, msg]; msg is meaningful when ok
read_expected_msg(pkt, expected_msg_num) ==
    IF pkt.io = "error" THEN [threw |-> TRUE, ok |-> FALSE]
    ELSE IF pkt.tag # expected_msg_num THEN [threw |-> FALSE, ok |-> FALSE]
    ELSE IF ~pkt.parses THEN [threw |-> FALSE, ok |-> FALSE]
    ELSE [threw |-> FALSE, ok |-> TRUE, msg |-> pkt.msg]

\* socket->recvmsg(fds) stores the descriptors that came with the data in
\* fds; size_ok is whether the data's size equals 4 + the length it states.
\* result [threw, ok, msg, fds]
read_expected_msg_with_fd(pkt, expected_msg_num, fds) ==
    IF pkt.io = "error" THEN [threw |-> TRUE, ok |-> FALSE, fds |-> fds]
    ELSE IF ~pkt.size_ok
    THEN [threw |-> FALSE, ok |-> FALSE, fds |-> fds \o pkt.fds]
    ELSE IF pkt.tag # expected_msg_num
    THEN [threw |-> FALSE, ok |-> FALSE, fds |-> fds \o pkt.fds]
    ELSE IF ~pkt.parses
    THEN [threw |-> FALSE, ok |-> FALSE, fds |-> fds \o pkt.fds]
    ELSE [threw |-> FALSE, ok |-> TRUE, msg |-> pkt.msg, fds |-> fds \o pkt.fds]

----------------------------------------------------------------------------
(* The messages the hook builds *)

ChallengeRequestMsg == [conn |-> GUARDO_SOCK_NAME, tag |-> CHALLENGE_REQUEST,
                        fds |-> <<>>]

\* a Credential request that sends the first challenge the process ever got
CredentialRequestMsg_cached(o, c) ==
    [conn |-> AGENT_GUARD_SOCK_NAME, tag |-> CREDENTIAL_REQUEST,
     op |-> o, challenge |-> [nonce |-> 1]]

CredentialRequestMsg(o, c) ==
    [conn |-> AGENT_GUARD_SOCK_NAME, tag |-> CREDENTIAL_REQUEST,
     op |-> o, challenge |-> c]

ElevationRequestMsg(o, cred, transplant) ==
    [conn |-> GUARDO_SOCK_NAME, tag |-> ELEVATION_REQUEST,
     op |-> o, credential |-> cred, fds |-> transplant]

\* default-constructed Challenge and Credential (hook lines 253, 259)
NewChallenge == [nonce |-> 0]
NewCredential == [id |-> 0]

\* get_credential without the status test
credential_approved_any(response) == TRUE

\* get_credential line 189
credential_approved(response) == response.status = "APPROVED"

\* unwrapping that falls back to the numeric field when no descriptor came
unwrap_result_no_abort(elevation_response, received) ==
    IF elevation_response.is_result_fd /\ Len(received) > 0
    THEN [abort |-> FALSE, result |-> received[1]]
    ELSE [abort |-> FALSE, result |-> elevation_response.result]

\* hook lines 276-285: [abort, result]
unwrap_result(elevation_response, received) ==
    IF elevation_response.is_result_fd
    THEN IF Len(received) = 0
         THEN [abort |-> TRUE]
         ELSE [abort |-> FALSE, result |-> received[1]]
    ELSE [abort |-> FALSE, result |-> elevation_response.result]

\* hook without fds.clear()
fds_clear_missing(transplant) == transplant

\* clearing the transplant list before the response is received (line 269)
fds_clear(transplant) == <<>>

----------------------------------------------------------------------------
(* The syscall filter *)

\* a switch without the default branch: nothing is declined
safe_hook_switch_all(n) == TRUE

\* safe_hook lines 299-310: the kinds that are not declined
safe_hook_switch(n) ==
    n \in {SYS_open, SYS_openat, SYS_unlink, SYS_unlinkat,
           SYS_access, SYS_socket, SYS_bind}

\* safe_hook line 314
permission_denied(r) == r = -EACCES \/ r = -EPERM

\* hook lines 207-244: the Operation built from the raw arguments a,
\* [known, should_hook, threw, op]
hook_build(n, a, stat) ==
    LET o == NewOperation(n)
        plain(x) == [known |-> TRUE, should_hook |-> TRUE, threw |-> FALSE, op |-> x]
        acc(r) == [known |-> TRUE, should_hook |-> r.ok, threw |-> r.threw, op |-> r.op]
    IN  CASE n = SYS_open -> plain(create_open_op(AT_FDCWD, a[1], a[2], a[3], o))
          [] n = SYS_openat -> plain(create_open_op(a[1], a[2], a[3], a[4], o))
          [] n = SYS_unlink -> plain(create_unlink_op(AT_FDCWD, a[1], 0, o))
          [] n = SYS_unlinkat -> plain(create_unlink_op(a[1], a[2], a[3], o))
          [] n = SYS_access -> acc(create_access_op(AT_FDCWD, a[1], a[2], 0, o, stat))
          [] n = SYS_faccessat -> acc(create_access_op(a[1], a[2], a[3], a[4], o, stat))
          [] n = SYS_socket -> plain(create_socket_op(a[1], a[2], a[3], o))
          [] n = SYS_bind -> plain(create_bind_op(a[1], a[2], a[3], o))
          [] OTHER -> [known |-> FALSE, should_hook |-> FALSE, threw |-> FALSE, op |-> o]

----------------------------------------------------------------------------
(* State *)

VARIABLES
    pc,             \* "idle", "wait_challenge", "wait_credential",
                    \* "wait_elevation", "returned", "crashed"
    attempt,        \* number of the current intercepted syscall (0: none yet)
    syscall_number, \* safe_hook's first argument
    real_result,    \* what syscall_no_intercept returned
    real_calls,     \* how often safe_hook called syscall_no_intercept
    result,         \* *result
    result_writes,  \* number of stores to *result in this call
    ret,            \* safe_hook's return value, -1 while it has not returned
    caught,         \* an exception reached safe_hook's catch clauses
    built_op,       \* hook's op as the encoder built it (before marshal_fds)
    op,             \* hook's op
    fds,            \* hook's fds
    fd_cwd,         \* hook's fd_cwd: <<>> or <<descriptor>>
    challenge,      \* hook's challenge
    credential,     \* hook's credential
    conns,          \* the connections opened in this call, in order
    sent,           \* the messages sent in this call, in order
    rcvd,           \* the packets received in this call, in order
    raw_args,       \* safe_hook's <<arg0, arg1, arg2, arg3>>
    fs_stat,        \* what fs::status answers for the path of this call
    cwd_opens,      \* what each openat(AT_FDCWD, ".") of this call returned
    closed_fds,     \* the descriptors this call closed, in order
    open_conns,     \* the positions in conns of the connections still open
    frame,          \* one message on the wire: tag, payload, bytes, readings
    th,             \* per thread: where it is in hook, what it sent and got
    locals          \* per stack frame: hook's automatic variables

\* the state of the call of one thread
call_vars == <<pc, attempt, syscall_number, real_result, real_calls, result,
               result_writes, ret, caught, built_op, op, fds, fd_cwd,
               challenge, credential, conns, sent, rcvd, raw_args, fs_stat,
               cwd_opens, closed_fds, open_conns>>

vars == <<call_vars, frame, th, locals>>

----------------------------------------------------------------------------
(* Inputs: what the caller, the kernel, the filesystem and the peers give *)

\* a syscall outside hook's switch (read)
OtherSyscalls == {0}
Syscalls == HookKinds \cup OtherSyscalls

\* descriptors the caller passes: 3 is an open directory, 5 a socket
DirFds == {AT_FDCWD, 3}
SockFds == {5}
AccessModes == {X_OK, 4}

\* the raw argument tuples <<arg0, arg1, arg2, arg3>> a caller passes for n
RawArgs(n) ==
    CASE n = SYS_open -> {<<p, 0, 0, 0>> : p \in PathPtrs}
      [] n = SYS_openat -> {<<d, p, 0, 0>> : d \in DirFds, p \in PathPtrs}
      [] n = SYS_unlink -> {<<p, 0, 0, 0>> : p \in PathPtrs}
      [] n = SYS_unlinkat -> {<<d, p, 0, 0>> : d \in DirFds, p \in PathPtrs}
      [] n = SYS_access -> {<<p, m, 0, 0>> : p \in PathPtrs, m \in AccessModes}
      [] n = SYS_faccessat ->
           {<<d, p, m, 0>> : d \in DirFds, p \in PathPtrs, m \in AccessModes}
      [] n = SYS_socket -> {<<1, 1, 0, 0>>}
      [] n = SYS_bind -> {<<s, a, l, 0>> : s \in SockFds, a \in SockaddrPtrs, l \in {2, 3}}
      [] OTHER -> {<<0, 0, 0, 0>>}

\* results of the real syscall: permission denied, another error, success
RealResults == {-EACCES, -EPERM, -2, 3}

StatOutcomes == {"exec", "noexec", "throw"}

FsEnvs == [dup : {-1, 10}, cwd_ok : BOOLEAN, links : SUBSET {3}]

\* connecting to the agent: the runtime directory is known and the agent
\* accepts ("ok"); the connect fails with an exception ("refused"); neither
\* XDG_RUNTIME_DIR nor HOME is set, so std::string is built from a null
\* pointer, which throws std::logic_error or ends the process
AgentConnects == {"ok", "refused", "nodir_throw", "nodir_crash"}

ChallengePackets(k) ==
    {[io |-> "error"]} \cup
    {[io |-> "ok", tag |-> t, parses |-> p, msg |-> [nonce |-> k]] :
        t \in {CHALLENGE_RESPONSE, ELEVATION_RESPONSE}, p \in BOOLEAN}

CredentialPackets(k) ==
    {[io |-> "error"]} \cup
    {[io |-> "ok", tag |-> t, parses |-> p,
      msg |-> [status |-> s, credential |-> [id |-> k]]] :
        t \in {CREDENTIAL_RESPONSE, CHALLENGE_RESPONSE}, p \in BOOLEAN,
        s \in {"APPROVED", "DENIED"}}

\* descriptors the kernel installs for a received message are new ones
ElevationPackets ==
    {[io |-> "error"]} \cup
    {[io |-> "ok", size_ok |-> z, tag |-> t, parses |-> p,
      msg |-> [is_result_fd |-> f, result |-> r], fds |-> d] :
        z \in BOOLEAN, t \in {ELEVATION_RESPONSE, CHALLENGE_RESPONSE},
        p \in BOOLEAN, f \in BOOLEAN, r \in {0, -2},
        d \in {<<>>, <<8>>, <<8, 9>>}}

----------------------------------------------------------------------------
(* How a call ends *)

\* safe_hook line 325 after hook returned normally
Return == pc' = "returned" /\ ret' = 0 /\ caught' = FALSE

\* safe_hook lines 320-325: the exception is caught, then return 0
CatchAndReturn == pc' = "returned" /\ ret' = 0 /\ caught' = TRUE

\* the process ends inside the call
Crash == pc' = "crashed" /\ ret' = ret /\ caught' = caught

----------------------------------------------------------------------------
(* Scopes: what leaving a function closes                                  *)

\* get_credential's "UnixSocket socket" (line 176) goes out of scope at every
\* exit of get_credential: the connection to the agent is closed
get_credential_return_leak(open, cs) == open

get_credential_return(open, cs) ==
    {i \in open : cs[i] # AGENT_GUARD_SOCK_NAME}

\* hook's "UnixSocket socket" (line 248) goes out of scope at every exit of
\* hook: the connection to the elevation daemon is closed
hook_return(open, cs) == {i \in open : cs[i] # GUARDO_SOCK_NAME}

\* hook is left (return or exception) with fd_cwd = h and the connections cs,
\* of which open are open
LeaveHook(h, open, cs) ==
    /\ closed_fds' = closed_fds \o FileDescriptor_dtor(h)
    /\ open_conns' = hook_return(open, cs)

----------------------------------------------------------------------------
(* hook lines 246-252: resolve the descriptors, connect to the elevation   *)
(* daemon, send the Challenge request.  o is the op as built.              *)
hook_start(o, fsenv, connect_ok, send_ok) ==
    LET m == marshal_fds(o, <<>>, fsenv)
    IN  /\ built_op' = o
        /\ op' = m.op
        /\ fds' = m.fds
        /\ fd_cwd' = m.fd_cwd
        /\ cwd_opens' = m.opens
        /\ challenge' = NewChallenge
        /\ credential' = NewCredential
        /\ rcvd' = <<>>
        /\ IF m.threw
           THEN /\ conns' = <<>> /\ sent' = <<>> /\ CatchAndReturn
                /\ closed_fds' = closed_fds \o m.closed
                /\ open_conns' = {}
           ELSE IF ~connect_ok
           THEN /\ conns' = <<>> /\ sent' = <<>> /\ CatchAndReturn
                /\ LeaveHook(m.fd_cwd, {}, <<>>)
           ELSE /\ conns' = <<GUARDO_SOCK_NAME>>
                /\ IF ~send_ok
                   THEN /\ sent' = <<>> /\ CatchAndReturn
                        /\ LeaveHook(m.fd_cwd, {1}, <<GUARDO_SOCK_NAME>>)
                   ELSE /\ sent' = <<ChallengeRequestMsg>>
                        /\ pc' = "wait_challenge" /\ ret' = -1 /\ caught' = FALSE
                        /\ closed_fds' = closed_fds
                        /\ open_conns' = {1}

\* hook was entered but returned before marshal_fds (lines 239, 243) or
\* create_access_op threw
hook_skip(o, threw) ==
    /\ built_op' = o /\ op' = o /\ fds' = <<>> /\ fd_cwd' = <<>>
    /\ challenge' = NewChallenge /\ credential' = NewCredential
    /\ conns' = <<>> /\ sent' = <<>> /\ rcvd' = <<>>
    /\ cwd_opens' = <<>> /\ closed_fds' = closed_fds /\ open_conns' = {}
    /\ IF threw THEN CatchAndReturn ELSE Return

\* hook lines 207-252
hook(n, a, stat, fsenv, connect_ok, send_ok) ==
    LET b == hook_build(n, a, stat)
    IN  IF b.threw \/ ~b.known \/ ~b.should_hook
        THEN hook_skip(b.op, b.threw)
        ELSE hook_start(b.op, fsenv, connect_ok, send_ok)

----------------------------------------------------------------------------
(* Actions *)

\* safe_hook is called for a syscall; runs to its return or to hook's first
\* receive
SafeHook(n, a, rr, stat, fsenv, connect_ok, send_ok) ==
    /\ pc = "idle"
    /\ attempt < MaxAttempts
    /\ attempt' = attempt + 1
    /\ syscall_number' = n
    /\ raw_args' = a
    /\ fs_stat' = stat
    /\ IF ~safe_hook_switch(n)
       THEN \* line 309: declined
            /\ pc' = "returned" /\ ret' = 1 /\ caught' = FALSE
            /\ UNCHANGED <<real_result, real_calls, result, result_writes,
                           built_op, op, fds, fd_cwd, challenge, credential,
                           conns, sent, rcvd, cwd_opens, closed_fds,
                           open_conns>>
       ELSE \* lines 312-313
            /\ real_result' = rr
            /\ real_calls' = real_calls + 1
            /\ result' = rr
            /\ result_writes' = result_writes + 1
            /\ IF ~permission_denied(rr)
               THEN /\ Return
                    /\ UNCHANGED <<built_op, op, fds, fd_cwd, challenge,
                                   credential, conns, sent, rcvd, cwd_opens,
                                   closed_fds, open_conns>>
               ELSE hook(n, a, stat, fsenv, connect_ok, send_ok)

\* get_credential lines 176-182: connect to the agent, send the request
get_credential_start(o, c, agent, write_ok) ==
    IF agent = "nodir_crash"
    THEN Crash /\ UNCHANGED <<conns, sent, closed_fds, open_conns>>
    ELSE IF agent # "ok"
    THEN /\ CatchAndReturn /\ UNCHANGED <<conns, sent>>
         /\ LeaveHook(fd_cwd, get_credential_return(open_conns, conns), conns)
    ELSE LET cs == Append(conns, AGENT_GUARD_SOCK_NAME)
             open == open_conns \cup {Len(cs)}
         IN  /\ conns' = cs
             /\ IF ~write_ok
                THEN /\ CatchAndReturn /\ UNCHANGED sent
                     /\ LeaveHook(fd_cwd, get_credential_return(open, cs), cs)
                ELSE /\ sent' = Append(sent, CredentialRequestMsg(o, c))
                     /\ pc' = "wait_credential" /\ ret' = -1 /\ caught' = FALSE
                     /\ closed_fds' = closed_fds
                     /\ open_conns' = open

\* hook lines 253-260 and get_credential lines 176-182
RecvChallenge(pkt, agent, write_ok) ==
    /\ pc = "wait_challenge"
    /\ rcvd' = Append(rcvd, pkt)
    /\ LET r == read_expected_msg(pkt, CHALLENGE_RESPONSE)
       IN  IF r.threw
           THEN /\ CatchAndReturn /\ UNCHANGED <<challenge, conns, sent>>
                /\ LeaveHook(fd_cwd, open_conns, conns)
           ELSE IF ~r.ok
           THEN /\ Return /\ UNCHANGED <<challenge, conns, sent>>
                /\ LeaveHook(fd_cwd, open_conns, conns)
           ELSE /\ challenge' = r.msg
                /\ get_credential_start(op, r.msg, agent, write_ok)
    /\ UNCHANGED <<attempt, syscall_number, real_result, real_calls, result,
                   result_writes, built_op, op, fds, fd_cwd, credential,
                   raw_args, fs_stat, cwd_opens>>

\* get_credential lines 184-195, hook lines 260-269
RecvCredential(pkt, send_ok) ==
    /\ pc = "wait_credential"
    /\ rcvd' = Append(rcvd, pkt)
    /\ LET r == read_expected_msg(pkt, CREDENTIAL_RESPONSE)
           open == get_credential_return(open_conns, conns)
       IN  IF r.threw
           THEN /\ CatchAndReturn /\ UNCHANGED <<credential, sent, fds>>
                /\ LeaveHook(fd_cwd, open, conns)
           ELSE IF ~r.ok \/ ~credential_approved(r.msg)
           THEN /\ Return /\ UNCHANGED <<credential, sent, fds>>
                /\ LeaveHook(fd_cwd, open, conns)
           ELSE /\ credential' = r.msg.credential
                /\ IF ~send_ok
                   THEN /\ CatchAndReturn /\ UNCHANGED <<sent, fds>>
                        /\ LeaveHook(fd_cwd, open, conns)
                   ELSE /\ sent' = Append(sent,
                               ElevationRequestMsg(op, r.msg.credential, fds))
                        /\ fds' = fds_clear(fds)
                        /\ pc' = "wait_elevation" /\ ret' = -1 /\ caught' = FALSE
                        /\ closed_fds' = closed_fds
                        /\ open_conns' = open
    /\ UNCHANGED <<attempt, syscall_number, real_result, real_calls, result,
                   result_writes, built_op, op, fd_cwd, challenge, conns,
                   raw_args, fs_stat, cwd_opens>>

\* hook lines 271-286
RecvElevation(pkt) ==
    /\ pc = "wait_elevation"
    /\ rcvd' = Append(rcvd, pkt)
    /\ LeaveHook(fd_cwd, open_conns, conns)
    /\ LET r == read_expected_msg_with_fd(pkt, ELEVATION_RESPONSE, fds)
       IN  /\ fds' = r.fds
           /\ IF r.threw
              THEN CatchAndReturn /\ UNCHANGED <<result, result_writes>>
              ELSE IF ~r.ok
              THEN Return /\ UNCHANGED <<result, result_writes>>
              ELSE LET u == unwrap_result(r.msg, r.fds)
                   IN  /\ Return
                       /\ IF u.abort
                          THEN UNCHANGED <<result, result_writes>>
                          ELSE /\ result' = u.result
                               /\ result_writes' = result_writes + 1
    /\ UNCHANGED <<attempt, syscall_number, real_result, real_calls, built_op,
                   op, fd_cwd, challenge, credential, conns, sent, raw_args,
                   fs_stat, cwd_opens>>

\* the interception mechanism resumes the program: the call's frame is gone
Resume ==
    /\ pc = "returned"
    /\ pc' = "idle"
    /\ syscall_number' = 0 /\ real_result' = 0 /\ real_calls' = 0
    /\ result' = 0 /\ result_writes' = 0 /\ ret' = -1 /\ caught' = FALSE
    /\ built_op' = NewOperation(0) /\ op' = NewOperation(0)
    /\ fds' = <<>> /\ fd_cwd' = <<>>
    /\ challenge' = NewChallenge /\ credential' = NewCredential
    /\ conns' = <<>> /\ sent' = <<>> /\ rcvd' = <<>>
    /\ raw_args' = <<0, 0, 0, 0>> /\ fs_stat' = "exec"
    /\ cwd_opens' = <<>> /\ closed_fds' = <<>> /\ open_conns' = {}
    /\ UNCHANGED <<attempt, frame, th, locals>>

InitCall ==
    /\ pc = "idle"
    /\ attempt = 0
    /\ syscall_number = 0 /\ real_result = 0 /\ real_calls = 0
    /\ result = 0 /\ result_writes = 0 /\ ret = -1 /\ caught = FALSE
    /\ built_op = NewOperation(0) /\ op = NewOperation(0)
    /\ fds = <<>> /\ fd_cwd = <<>>
    /\ challenge = NewChallenge /\ credential = NewCredential
    /\ conns = <<>> /\ sent = <<>> /\ rcvd = <<>>
    /\ raw_args = <<0, 0, 0, 0>> /\ fs_stat = "exec"
    /\ cwd_opens = <<>> /\ closed_fds = <<>> /\ open_conns = {}

\* no message is on the wire and no second thread runs
NoFrame == [phase |-> "none"]
NoThreads == <<>>
NoLocals == <<>>

Init ==
    /\ InitCall
    /\ frame = NoFrame /\ th = NoThreads /\ locals = NoLocals

Intercept ==
    /\ pc = "idle"
    /\ UNCHANGED <<frame, th, locals>>
    /\ \E n \in Syscalls, rr \in RealResults, stat \in StatOutcomes,
          fsenv \in FsEnvs, connect_ok \in BOOLEAN, send_ok \in BOOLEAN :
           \E a \in RawArgs(n) :
               SafeHook(n, a, rr, stat, fsenv, connect_ok, send_ok)

ChallengeArrives ==
    /\ pc = "wait_challenge"
    /\ UNCHANGED <<frame, th, locals>>
    /\ \E pkt \in ChallengePackets(attempt), agent \in AgentConnects,
         write_ok \in BOOLEAN :
           RecvChallenge(pkt, agent, write_ok)

CredentialArrives ==
    /\ pc = "wait_credential"
    /\ UNCHANGED <<frame, th, locals>>
    /\ \E pkt \in CredentialPackets(attempt), send_ok \in BOOLEAN :
           RecvCredential(pkt, send_ok)

ElevationArrives ==
    /\ pc = "wait_elevation"
    /\ UNCHANGED <<frame, th, locals>>
    /\ \E pkt \in ElevationPackets : RecvElevation(pkt)

Next ==
    \/ Intercept
    \/ ChallengeArrives
    \/ CredentialArrives
    \/ ElevationArrives
    \/ Resume

Spec == Init /\ [][Next]_vars

----------------------------------------------------------------------------
(* hook from line 246 on, for an arbitrary Operation: marshal_fds and the  *)
(* negotiation do not depend on which encoder built the op.                *)

ArgVariants ==
    {IntArg(0), DirFdOfFd(AT_FDCWD), DirFdOfFd(3), DirFdOfPath(CurrentPath),
     DirFdNotSet, SocketOfFd(5)}

Operations ==
    {[syscall_num |-> SYS_openat, args |-> as] :
        as \in UNION {[1..n -> ArgVariants] : n \in 0..MaxArgs}}

\* safe_hook lines 312-319 with a permission-denied result, then hook from
\* line 246 with op = o
HookAnyOp(o, rr, fsenv, connect_ok, send_ok) ==
    /\ pc = "idle"
    /\ attempt = 0
    /\ attempt' = 1
    /\ syscall_number' = o.syscall_num
    /\ real_result' = rr
    /\ real_calls' = real_calls + 1
    /\ result' = rr
    /\ result_writes' = result_writes + 1
    /\ raw_args' = raw_args
    /\ fs_stat' = fs_stat
    /\ hook_start(o, fsenv, connect_ok, send_ok)

InterceptAnyOp ==
    /\ pc = "idle" /\ attempt = 0
    /\ UNCHANGED <<frame, th, locals>>
    /\ \E o \in Operations, rr \in {-EACCES, -EPERM}, fsenv \in FsEnvs,
          connect_ok \in BOOLEAN, send_ok \in BOOLEAN :
           HookAnyOp(o, rr, fsenv, connect_ok, send_ok)

NextAnyOp ==
    \/ InterceptAnyOp
    \/ ChallengeArrives
    \/ CredentialArrives
    \/ ElevationArrives

SpecAnyOp == Init /\ [][NextAnyOp]_vars

----------------------------------------------------------------------------
(* Properties *)

\* the messages of this call with the given tag, as positions in sent
Requests(tag) == {i \in 1..Len(sent) : sent[i].tag = tag}

\* a packet read_expected_msg must accept for the expected tag
WellFormed(pkt, tag) == pkt.io = "ok" /\ pkt.tag = tag /\ pkt.parses

\* an Elevation response that passes the size, tag and parse validation
ValidElevation(pkt) ==
    pkt.io = "ok" /\ pkt.size_ok /\ pkt.tag = ELEVATION_RESPONSE /\ pkt.parses

\* the third packet of the call is a validated Elevation response that
\* carries a usable result
ElevationGranted ==
    /\ Len(rcvd) = 3
    /\ ValidElevation(rcvd[3])
    /\ rcvd[3].msg.is_result_fd => rcvd[3].fds # <<>>

InNegotiation == pc \in {"wait_challenge", "wait_credential", "wait_elevation"}

\* C1: when the negotiation aborts at any step (a receive fails, the
\* credential is not approved, the Elevation response fails validation or
\* signals a descriptor and brings none), *result at safe_hook's return is the
\* real syscall's permission-denied value, stored once before the
\* negotiation; *result is stored a second time only after a validated
\* Elevation response.
C1_AbortLeavesDeniedResult ==
    /\ (pc = "returned" /\ Len(sent) >= 1 /\ ~ElevationGranted) =>
          /\ result = real_result
          /\ result \in {-EACCES, -EPERM}
          /\ result_writes = 1
    /\ InNegotiation => result = real_result /\ result_writes = 1
    /\ result_writes > 1 => Len(rcvd) = 3 /\ ValidElevation(rcvd[3])

\* a validated descriptor-result response without a descriptor was received
\* and the call returned the original -EACCES
C1_Witness ==
    /\ pc = "returned"
    /\ Len(rcvd) = 3
    /\ ValidElevation(rcvd[3])
    /\ rcvd[3].msg.is_result_fd /\ rcvd[3].fds = <<>>
    /\ rcvd[3].msg.result # -EACCES
    /\ result = -EACCES

\* C2: if the Credential response of an attempt has a status other than
\* APPROVED, no Elevation request is sent in that attempt.
C2_DeniedNeverElevates ==
    (Len(rcvd) >= 2 /\ rcvd[2].io = "ok" /\ rcvd[2].msg.status # "APPROVED")
        => Requests(ELEVATION_REQUEST) = {}

\* a well-formed Credential response with status DENIED was received
C2_Witness ==
    /\ pc = "returned"
    /\ Len(rcvd) = 2
    /\ WellFormed(rcvd[2], CREDENTIAL_RESPONSE)
    /\ rcvd[2].msg.status = "DENIED"
    /\ Requests(CREDENTIAL_REQUEST) # {}

\* C3: exactly the eight kinds open, openat, unlink, unlinkat, access,
\* faccessat, socket and bind participate: for each of them safe_hook performs
\* the real syscall and, on a permission-denied result, enters the elevation
\* path (hook builds the Operation); every other syscall is declined.
C3_EightKindsParticipate ==
    pc = "returned" =>
        IF syscall_number \in HookKinds
        THEN /\ ret = 0
             /\ real_calls = 1
             /\ real_result \in {-EACCES, -EPERM} =>
                    built_op.syscall_num = syscall_number
        ELSE ret = 1 /\ real_calls = 0

\* C4: for a participating syscall whose real result is not permission
\* denied, safe_hook returns with *result equal to the real result, builds no
\* Operation, opens no connection and sends nothing; a connection is opened
\* only after the real syscall returned -EACCES or -EPERM.
C4_OtherResultsStand ==
    /\ (pc = "returned" /\ syscall_number \in HookKinds
            /\ ~(real_calls = 1 /\ real_result \in {-EACCES, -EPERM})) =>
          /\ real_calls = 1
          /\ result = real_result /\ result_writes = 1
          /\ built_op.args = <<>> /\ conns = <<>> /\ sent = <<>>
    /\ conns # <<>> => real_calls = 1 /\ real_result \in {-EACCES, -EPERM}

\* C5: the requests of one attempt are sent in the order Challenge,
\* Credential, Elevation, each at most once; the Credential request only
\* after a well-formed Challenge response was received, the Elevation request
\* only after a well-formed approved Credential response was received.
C5_RequestOrder ==
    /\ Len(sent) <= 3
    /\ Len(sent) >= 1 => sent[1].tag = CHALLENGE_REQUEST
    /\ Len(sent) >= 2 =>
          /\ sent[2].tag = CREDENTIAL_REQUEST
          /\ Len(rcvd) >= 1 /\ WellFormed(rcvd[1], CHALLENGE_RESPONSE)
    /\ Len(sent) >= 3 =>
          /\ sent[3].tag = ELEVATION_REQUEST
          /\ Len(rcvd) >= 2 /\ WellFormed(rcvd[2], CREDENTIAL_RESPONSE)
          /\ rcvd[2].msg.status = "APPROVED"

\* all three requests were sent
C5_Witness ==
    /\ pc = "wait_elevation"
    /\ Len(sent) = 3 /\ Len(rcvd) = 2

\* C6: after a validated Elevation response, the result is the first
\* descriptor received with the response when it signals a descriptor result
\* and one came (never a descriptor that was sent), the original
\* permission-denied value when it signals a descriptor result and none came,
\* and the response's numeric result field otherwise.
C6_ResultUnwrapped ==
    (pc = "returned" /\ Len(rcvd) = 3 /\ ValidElevation(rcvd[3])) =>
        LET resp == rcvd[3]
            attached == sent[3].fds
        IN  IF resp.msg.is_result_fd
            THEN IF resp.fds # <<>>
                 THEN /\ result = resp.fds[1]
                      /\ \A j \in 1..Len(attached) : result # attached[j]
                 ELSE result = real_result /\ result \in {-EACCES, -EPERM}
            ELSE result = resp.msg.result

\* a descriptor result arrived for a request that carried a descriptor
C6_Witness ==
    /\ pc = "returned"
    /\ Len(rcvd) = 3 /\ ValidElevation(rcvd[3])
    /\ rcvd[3].msg.is_result_fd
    /\ rcvd[3].fds = <<8, 9>>
    /\ sent[3].fds # <<>>
    /\ result = 8

\* C7: for every participating syscall safe_hook returns normally with the
\* handled signal 0, whatever error the elevation path raised, and when an
\* error was raised *result holds the real syscall's value.
C7_NothingEscapes ==
    (pc = "returned" /\ syscall_number \in HookKinds) =>
        /\ ret = 0
        /\ caught => result = real_result /\ result_writes = 1

\* C8: the Elevation request of an attempt carries the Operation of the
\* attempt's Credential request, the Credential request carries the
\* Challenge received in this attempt, the Elevation request carries the
\* Credential of this attempt's approved response; nothing issued in an
\* earlier attempt (a smaller nonce or id) is sent.
C8_FreshBinding ==
    /\ \A i \in Requests(CREDENTIAL_REQUEST) :
          /\ Len(rcvd) >= 1
          /\ sent[i].challenge = rcvd[1].msg
          /\ sent[i].challenge.nonce = attempt
    /\ \A i \in Requests(ELEVATION_REQUEST) :
          /\ Len(rcvd) >= 2
          /\ sent[i].credential = rcvd[2].msg.credential
          /\ sent[i].credential.id = attempt
          /\ \A j \in Requests(CREDENTIAL_REQUEST) : sent[j].op = sent[i].op

\* the second attempt of a behaviour sent its Elevation request
C8_Witness ==
    /\ attempt = 2
    /\ Requests(ELEVATION_REQUEST) # {}
    /\ Requests(CREDENTIAL_REQUEST) # {}

\* no raw descriptor number in an argument
Resolved(arg) ==
    /\ arg.kind = "dir_fd_arg" => arg.form = "path"
    /\ arg.kind = "socket_arg" => ~arg.has_fd /\ arg.fd = 0

\* C9: the Operation in the Credential request and in the Elevation request
\* holds no raw descriptor: every DirFdArg is in Path form and every
\* SocketArg has its fd cleared.
C9_NoRawDescriptorSent ==
    \A i \in Requests(CREDENTIAL_REQUEST) \cup Requests(ELEVATION_REQUEST) :
        \A j \in 1..Len(sent[i].op.args) : Resolved(sent[i].op.args[j])

\* an Elevation request for bind (a SocketArg) or for a call with a
\* directory descriptor other than the sentinel was sent
C9_Witness ==
    /\ Requests(ELEVATION_REQUEST) # {}
    /\ syscall_number = SYS_bind
    /\ built_op.args[1] = SocketOfFd(5)
    /\ fd_cwd = <<>>

IsRawDescriptorArg(arg) ==
    \/ arg.kind = "dir_fd_arg" /\ arg.form = "fd"
    \/ arg.kind = "socket_arg"

\* one entry per raw DirFdArg / SocketArg of o, in argument order; h is the
\* duplicate of the current directory
ExpectedTransplant(o, h) ==
    LET raw == SelectSeq(o.args, IsRawDescriptorArg)
    IN  [k \in 1..Len(raw) |->
            IF raw[k].kind = "dir_fd_arg" /\ raw[k].fd = AT_FDCWD
            THEN h[1] ELSE raw[k].fd]

\* C10: the transplant list marshal_fds produces for an Operation has one
\* entry per raw DirFdArg / SocketArg, in argument order (Path arguments add
\* nothing), and this list is what is attached to the Elevation request.
C10_TransplantOrder ==
    /\ pc \in {"wait_challenge", "wait_credential"} =>
          fds = ExpectedTransplant(built_op, fd_cwd)
    /\ \A i \in Requests(ELEVATION_REQUEST) :
          sent[i].fds = ExpectedTransplant(built_op, fd_cwd)

\* an Elevation request with two transplanted descriptors (a socket, then
\* the duplicate for the sentinel) was sent for an Operation that also has a
\* Path argument
C10_Witness ==
    /\ Requests(ELEVATION_REQUEST) # {}
    /\ sent[3].fds = <<5, 10>>
    /\ fd_cwd = <<10>>
    /\ \E j \in 1..Len(built_op.args) : built_op.args[j] = DirFdOfPath(CurrentPath)

----------------------------------------------------------------------------
(* Resources, scopes and limits of one call *)

\* the call is access or faccessat with mode X_OK on a target none of whose
\* execute bits is set
ExecCheckOfNoExec ==
    /\ fs_stat = "noexec"
    /\ \/ syscall_number = SYS_access /\ raw_args[2] = X_OK
       \/ syscall_number = SYS_faccessat /\ raw_args[3] = X_OK

\* C11: an access or faccessat call with mode X_OK on a target without any
\* execute bit never produces a network request: the current directory is not
\* duplicated (marshal_fds is not reached), no connection is opened, no
\* message is sent, and *result is the real syscall's value, stored once.
C11_ExecCheckSkipsNetwork ==
    ExecCheckOfNoExec =>
        /\ pc = "returned"
        /\ cwd_opens = <<>> /\ fds = <<>> /\ fd_cwd = <<>>
        /\ conns = <<>> /\ sent = <<>> /\ rcvd = <<>>
        /\ built_op.args = <<>>
        /\ result_writes <= 1
        /\ real_calls = 1 => result = real_result /\ result_writes = 1

\* access(path, X_OK) on a target without execute bits was denied and the
\* call returned the denial
C11_Witness ==
    /\ pc = "returned"
    /\ syscall_number = SYS_access /\ raw_args[2] = X_OK
    /\ fs_stat = "noexec"
    /\ real_calls = 1 /\ real_result = -EACCES
    /\ result = -EACCES
    /\ ret = 0 /\ ~caught

\* the request tags of the negotiation
RequestTags == {CHALLENGE_REQUEST, CREDENTIAL_REQUEST, ELEVATION_REQUEST}

\* C12: one elevation attempt per intercepted syscall, no retry: when
\* safe_hook returns for a participating syscall it has performed the real
\* syscall exactly once, and in no state of a call has it performed it more
\* than once or sent more than one Challenge, Credential or Elevation request.
C12_OneAttemptNoRetry ==
    /\ (pc = "returned" /\ syscall_number \in HookKinds) => real_calls = 1
    /\ real_calls <= 1
    /\ \A tag \in RequestTags : Cardinality(Requests(tag)) <= 1

\* C15: a syscall outside the allow-list is passed through: safe_hook
\* returns 1 without performing the real syscall, without storing *result,
\* without building an Operation and without opening a connection or sending
\* a message.
C15_DeclinedPassThrough ==
    (pc = "returned" /\ syscall_number \notin HookKinds) =>
        /\ ret = 1 /\ ~caught
        /\ real_calls = 0
        /\ result_writes = 0 /\ result = 0
        /\ built_op = NewOperation(0) /\ op = NewOperation(0)
        /\ conns = <<>> /\ sent = <<>> /\ rcvd = <<>>
        /\ cwd_opens = <<>> /\ closed_fds = <<>> /\ open_conns = {}

\* safe_hook returned for a read, in the second call of the behaviour
C15_Witness ==
    /\ pc = "returned"
    /\ syscall_number \in OtherSyscalls
    /\ attempt = 2
    /\ ret = 1

\* how often d occurs in the sequence s
Occurrences(s, d) == Cardinality({i \in 1..Len(s) : s[i] = d})

\* C13: a descriptor obtained by duplicating the current directory is held
\* by this call's fd_cwd and open while the negotiation runs, is never closed
\* twice, and has been closed exactly once when safe_hook has returned,
\* whether hook returned normally, aborted or an exception was caught.
C13_CwdDuplicateClosedOnce ==
    \A i \in 1..Len(cwd_opens) :
        cwd_opens[i] >= 0 =>
            /\ Occurrences(closed_fds, cwd_opens[i]) <= 1
            /\ InNegotiation =>
                  /\ Occurrences(closed_fds, cwd_opens[i]) = 0
                  /\ fd_cwd = <<cwd_opens[i]>>
            /\ pc = "returned" => Occurrences(closed_fds, cwd_opens[i]) = 1

\* fs::current_path() threw inside marshal_fds after the duplicate was
\* created; the exception was caught and the duplicate is closed
C13_Witness ==
    /\ pc = "returned" /\ caught
    /\ cwd_opens = <<10>>
    /\ conns = <<>>
    /\ closed_fds = <<10>>

\* the connections of this call to the endpoint name, as positions in conns
ConnsTo(name) == {i \in 1..Len(conns) : conns[i] = name}

\* C17: a call opens at most one connection to the elevation daemon and at
\* most one to the agent; the Challenge and the Elevation request go out on
\* the connection to the elevation daemon, which is the only open connection
\* whenever hook waits for that daemon; the Credential request goes out on
\* the connection to the agent, which is closed before the Elevation request
\* is sent; no connection is open once safe_hook has returned.
C17_ConnectionUse ==
    /\ Cardinality(ConnsTo(GUARDO_SOCK_NAME)) <= 1
    /\ Cardinality(ConnsTo(AGENT_GUARD_SOCK_NAME)) <= 1
    /\ Len(conns) <= 2
    /\ \A i \in Requests(CHALLENGE_REQUEST) \cup Requests(ELEVATION_REQUEST) :
          sent[i].conn = GUARDO_SOCK_NAME /\ ConnsTo(GUARDO_SOCK_NAME) # {}
    /\ \A i \in Requests(CREDENTIAL_REQUEST) :
          sent[i].conn = AGENT_GUARD_SOCK_NAME /\ ConnsTo(AGENT_GUARD_SOCK_NAME) # {}
    /\ pc \in {"wait_challenge", "wait_elevation"} =>
          open_conns = ConnsTo(GUARDO_SOCK_NAME)
    /\ pc = "wait_credential" =>
          open_conns = ConnsTo(GUARDO_SOCK_NAME) \cup ConnsTo(AGENT_GUARD_SOCK_NAME)
    /\ Requests(ELEVATION_REQUEST) # {} =>
          open_conns \cap ConnsTo(AGENT_GUARD_SOCK_NAME) = {}
    /\ pc \in {"returned", "idle"} => open_conns = {}
    /\ pc = "idle" => conns = <<>>

\* the Elevation request was sent: both connections were opened, only the
\* one to the elevation daemon is still open
C17_Witness ==
    /\ pc = "wait_elevation"
    /\ conns = <<GUARDO_SOCK_NAME, AGENT_GUARD_SOCK_NAME>>
    /\ open_conns = {1}
    /\ Requests(ELEVATION_REQUEST) = {3}
    /\ attempt = 2

\* the positions of the arguments of o that are the CWD sentinel
Sentinels(o) ==
    {j \in 1..Len(o.args) : o.args[j] = DirFdOfFd(AT_FDCWD)}

\* C18: marshal_fds duplicates the current directory at most once for an
\* Operation, and not at all when no argument is the CWD sentinel; when it
\* has returned, the transplant list holds the one duplicate's number for
\* every sentinel (ExpectedTransplant) and every sentinel argument has become
\* the Path of the current working directory.
C18_CwdDuplicatedAtMostOnce ==
    /\ Len(cwd_opens) <= 1
    /\ Sentinels(built_op) = {} => cwd_opens = <<>> /\ fd_cwd = <<>>
    /\ (Sentinels(built_op) # {} /\ InNegotiation) =>
          /\ Len(cwd_opens) = 1
          /\ fd_cwd = <<cwd_opens[1]>>
          /\ \A j \in Sentinels(built_op) :
                op.args[j] = DirFdOfPath(CurrentPath)
          /\ pc # "wait_elevation" =>
                /\ fds = ExpectedTransplant(built_op, <<cwd_opens[1]>>)
                /\ Occurrences(fds, cwd_opens[1]) =
                       Cardinality(Sentinels(built_op))

\* marshal_fds returned for an Operation with three sentinel arguments
C18_Witness ==
    /\ pc = "wait_challenge"
    /\ Cardinality(Sentinels(built_op)) = 3
    /\ cwd_opens = <<10>>
    /\ fds = <<10, 10, 10>>

\* C20: when safe_hook has returned after an Elevation response was
\* received, every descriptor that came with the response is either the
\* result the call returns (the first descriptor of a validated
\* descriptor-result response) or has been closed.
C20_ReceivedDescriptorsReleased ==
    (pc = "returned" /\ Len(rcvd) = 3 /\ rcvd[3].io = "ok") =>
        \A k \in 1..Len(rcvd[3].fds) :
            \/ /\ k = 1
               /\ ValidElevation(rcvd[3])
               /\ rcvd[3].msg.is_result_fd
               /\ result = rcvd[3].fds[1]
            \/ Occurrences(closed_fds, rcvd[3].fds[k]) = 1

\* C19: every call of safe_hook ends by returning: a call is never left in a
\* state from which it cannot return; while hook waits it waits for the
\* response to the request it sent last, having sent at most three requests
\* and received at most two responses, and a call has sent at most three
\* and received at most three messages when it returns.
C19_CallReturns ==
    /\ pc \in {"idle", "returned", "wait_challenge", "wait_credential",
               "wait_elevation"}
    /\ Len(sent) <= 3 /\ Len(rcvd) <= 3
    /\ pc = "wait_challenge" => Len(sent) = 1 /\ Len(rcvd) = 0
    /\ pc = "wait_credential" => Len(sent) = 2 /\ Len(rcvd) = 1
    /\ pc = "wait_elevation" => Len(sent) = 3 /\ Len(rcvd) = 2
    /\ pc = "returned" => ret \in {0, 1}

----------------------------------------------------------------------------
(* Framing on the wire: create_raw_msg and the two receive functions on    *)
(* bytes.  A message's serialization (MessageLite::AppendToString) is its  *)
(* payload, a sequence of bytes; what a receive function hands to          *)
(* ParseFromString is parse_input.                                         *)

\* longest payload of a framed message
MaxPayloadLen == 3

\* values of an unsigned char msg_num: one below and one above 127
FrameTags == {1, 200}
PayloadBytes == {0, 7}
Payloads == UNION {[1..n -> PayloadBytes] : n \in 0..MaxPayloadLen}

\* a char of the x86-64 ABI (signed) promoted to int
SignedChar(b) == IF b >= 128 THEN b - 256 ELSE b

\* *(int*)p = htonl(n): the four bytes at p, most significant first
htonl(n) ==
    <<(n \div 16777216) % 256, (n \div 65536) % 256, (n \div 256) % 256, n % 256>>

\* ntohl(*(int*)p) stored in an int (32 bits, two's complement)
ntohl(b) ==
    ((SignedChar(b[1]) * 256 + b[2]) * 256 + b[3]) * 256 + b[4]

\* std::string(const char*): the bytes before the first zero byte
RECURSIVE c_str(_)
c_str(b) == IF b = <<>> \/ b[1] = 0 THEN <<>> ELSE <<b[1]>> \o c_str(Tail(b))

\* lines 128-135
create_raw_msg(msg_num, payload) ==
    LET raw_msg == <<0, 0, 0, 0, msg_num>> \o payload
    IN  htonl(Len(raw_msg) - 4) \o SubSeq(raw_msg, 5, Len(raw_msg))

\* lines 137-151 on the bytes the stream delivers: read_full throws when the
\* stream ends early, substr(1) when the packet is empty;
\* [threw, ok, parse_input]
read_expected_msg_bytes(stream, expected_msg_num) ==
    LET failed(t) == [threw |-> t, ok |-> FALSE, parse_input |-> <<>>]
    IN  IF Len(stream) < 4 THEN failed(TRUE)
        ELSE LET packet_len == ntohl(SubSeq(stream, 1, 4))
                 rest == SubSeq(stream, 5, Len(stream))
             IN  IF packet_len < 0 \/ Len(rest) < packet_len THEN failed(TRUE)
                 ELSE LET packet == SubSeq(rest, 1, packet_len)
                          packet_0 == IF packet = <<>> THEN 0
                                      ELSE SignedChar(packet[1])
                      IN  IF packet_0 # expected_msg_num THEN failed(FALSE)
                          ELSE IF packet = <<>> THEN failed(TRUE)
                          ELSE [threw |-> FALSE, ok |-> TRUE,
                                parse_input |-> SubSeq(packet, 2, Len(packet))]

\* lines 153-172 on the bytes recvmsg returned (at least the five bytes
\* create_raw_msg always writes); [threw, ok, parse_input]
read_expected_msg_with_fd_bytes(response_data, expected_msg_num) ==
    LET failed == [threw |-> FALSE, ok |-> FALSE, parse_input |-> <<>>]
        payload_size == ntohl(SubSeq(response_data, 1, 4))
        msg_num == response_data[5]
    IN  IF Len(response_data) # 4 + payload_size THEN failed
        ELSE IF msg_num # expected_msg_num THEN failed
        ELSE [threw |-> FALSE, ok |-> TRUE,
              parse_input |-> c_str(SubSeq(response_data, 6,
                                           Len(response_data)))]

\* a sender frames a message with tag msg_num; a receiver expects
\* expected_msg_num
FrameInputs ==
    [phase : {"input"}, msg_num : FrameTags, payload : Payloads,
     expected_msg_num : FrameTags]

InitFrame ==
    /\ InitCall
    /\ th = NoThreads /\ locals = NoLocals
    /\ frame \in FrameInputs

\* the sender calls create_raw_msg
SendFrame ==
    /\ frame.phase = "input"
    /\ frame' = [phase |-> "framed", msg_num |-> frame.msg_num,
                 payload |-> frame.payload,
                 expected_msg_num |-> frame.expected_msg_num,
                 raw |-> create_raw_msg(frame.msg_num, frame.payload)]
    /\ UNCHANGED <<call_vars, th, locals>>

\* a receiver reads the frame from a stream with read_expected_msg
ReadFrame ==
    /\ frame.phase = "framed"
    /\ frame' = [phase |-> "read", msg_num |-> frame.msg_num,
                 payload |-> frame.payload,
                 expected_msg_num |-> frame.expected_msg_num,
                 raw |-> frame.raw,
                 stream_read |-> read_expected_msg_bytes(
                                     frame.raw, frame.expected_msg_num)]
    /\ UNCHANGED <<call_vars, th, locals>>

\* a receiver gets the same frame from recvmsg in read_expected_msg_with_fd
ReadFrameWithFd ==
    /\ frame.phase = "read"
    /\ frame' = [phase |-> "read_with_fd", msg_num |-> frame.msg_num,
                 payload |-> frame.payload,
                 expected_msg_num |-> frame.expected_msg_num,
                 raw |-> frame.raw,
                 stream_read |-> frame.stream_read,
                 recvmsg_read |-> read_expected_msg_with_fd_bytes(
                                      frame.raw, frame.expected_msg_num)]
    /\ UNCHANGED <<call_vars, th, locals>>

NextFrame ==
    \/ SendFrame
    \/ ReadFrame
    \/ ReadFrameWithFd

SpecFrame == InitFrame /\ [][NextFrame]_vars

\* what a receive function must report for the frame: success with exactly
\* the payload when the expected tag is the frame's, failure otherwise
FrameReadAsSent(r) ==
    IF frame.expected_msg_num = frame.msg_num
    THEN ~r.threw /\ r.ok /\ r.parse_input = frame.payload
    ELSE ~r.ok

\* C16: the frame create_raw_msg builds is the length 1 + payload length in
\* four bytes, most significant first, then the tag, then the payload; both
\* read_expected_msg and read_expected_msg_with_fd accept it and hand exactly
\* the payload to the parser when they expect the frame's tag, and report
\* failure when they expect another tag.
C16_FramingRoundTrip ==
    /\ frame.phase \in {"framed", "read", "read_with_fd"} =>
          /\ Len(frame.raw) = 5 + Len(frame.payload)
          /\ SubSeq(frame.raw, 1, 4) = <<0, 0, 0, 1 + Len(frame.payload)>>
          /\ frame.raw[5] = frame.msg_num
          /\ SubSeq(frame.raw, 6, Len(frame.raw)) = frame.payload
    /\ frame.phase \in {"read", "read_with_fd"} =>
          FrameReadAsSent(frame.stream_read)
    /\ frame.phase = "read_with_fd" => FrameReadAsSent(frame.recvmsg_read)

----------------------------------------------------------------------------
(* Threads: several threads inside safe_hook at the same time.  Each       *)
(* thread's call is the code of hook between two blocking receives, as     *)
(* above; hook's variables (op, fds, fd_cwd, socket, challenge, credential *)
(* and get_credential's socket) are automatic, so they live in the stack   *)
(* frame of the thread that runs the call.                                 *)

\* number of threads that intercept a syscall
NumThreads == 2
Threads == 1..NumThreads

\* hook's variables declared static: one frame for all threads
frame_of_shared(t) == 1

\* the frame that holds the automatic variables of thread t's call
frame_of(t) == t

\* thread t calls openat(AT_FDCWD, "secret", t, 0); the kernel denies it and
\* gives the thread's duplicate of the current directory a number of its own
ThreadOp(t) == create_open_op(AT_FDCWD, 1000, t, 0, NewOperation(SYS_openat))
ThreadRealResult(t) == IF t % 2 = 1 THEN -EACCES ELSE -EPERM
ThreadFsEnv(t) == [dup |-> 10 + t, cwd_ok |-> TRUE, links |-> {}]

\* what the daemons may answer a thread
Nonces == {1, 2}
ThreadChallengePackets ==
    {[io |-> "error"]} \cup
    {[io |-> "ok", tag |-> CHALLENGE_RESPONSE, parses |-> TRUE,
      msg |-> [nonce |-> k]] : k \in Nonces}
ThreadCredentialPackets ==
    {[io |-> "error"]} \cup
    {[io |-> "ok", tag |-> CREDENTIAL_RESPONSE, parses |-> TRUE,
      msg |-> [status |-> s, credential |-> [id |-> k]]] :
        s \in {"APPROVED", "DENIED"}, k \in Nonces}
ThreadElevationPackets(t) ==
    {[io |-> "error"]} \cup
    {[io |-> "ok", size_ok |-> TRUE, tag |-> ELEVATION_RESPONSE,
      parses |-> TRUE, msg |-> [is_result_fd |-> f, result |-> 0],
      fds |-> d] : f \in BOOLEAN, d \in {<<>>, <<20 + t>>}}

IdleThread ==
    [pc |-> "idle", built_op |-> NewOperation(0), real_result |-> 0,
     result |-> 0, ret |-> -1, sent |-> <<>>, rcvd |-> <<>>]

\* socket and agent_socket name the thread that opened the connection
\* (0: none); owner is the thread that stored into the frame last
EmptyLocals ==
    [op |-> NewOperation(0), fds |-> <<>>, fd_cwd |-> <<>>,
     challenge |-> NewChallenge, credential |-> NewCredential,
     socket |-> 0, agent_socket |-> 0, owner |-> 0]

InitThreads ==
    /\ InitCall
    /\ frame = NoFrame
    /\ th = [t \in Threads |-> IdleThread]
    /\ locals = [s \in Threads |-> EmptyLocals]

\* a message as it leaves the process: on the connection opened by thread s
OnSocket(m, s) == [msg |-> m, socket |-> s]

\* safe_hook lines 312-318 and hook lines 207-252 in thread t
ThreadSafeHook(t) ==
    /\ th[t].pc = "idle"
    /\ LET f == frame_of(t)
           o == ThreadOp(t)
           m == marshal_fds(o, <<>>, ThreadFsEnv(t))
       IN  /\ locals' = [locals EXCEPT ![f] =
                  [op |-> m.op, fds |-> m.fds, fd_cwd |-> m.fd_cwd,
                   challenge |-> NewChallenge, credential |-> NewCredential,
                   socket |-> t, agent_socket |-> 0, owner |-> t]]
           /\ th' = [th EXCEPT ![t] =
                  [pc |-> "wait_challenge", built_op |-> o,
                   real_result |-> ThreadRealResult(t),
                   result |-> ThreadRealResult(t), ret |-> -1,
                   sent |-> <<OnSocket(ChallengeRequestMsg, t)>>,
                   rcvd |-> <<>>]]
    /\ UNCHANGED <<call_vars, frame>>

\* hook lines 253-260 and get_credential lines 176-182 in thread t
ThreadRecvChallenge(t, pkt) ==
    /\ th[t].pc = "wait_challenge"
    /\ LET f == frame_of(t)
           lf == locals[f]
           r == read_expected_msg(pkt, CHALLENGE_RESPONSE)
       IN  IF r.threw \/ ~r.ok
           THEN /\ th' = [th EXCEPT ![t].pc = "returned", ![t].ret = 0,
                                    ![t].rcvd = Append(@, pkt)]
                /\ UNCHANGED locals
           ELSE /\ locals' = [locals EXCEPT ![f].challenge = r.msg,
                                            ![f].agent_socket = t,
                                            ![f].owner = t]
                /\ th' = [th EXCEPT ![t].pc = "wait_credential",
                                    ![t].rcvd = Append(@, pkt),
                                    ![t].sent = Append(@,
                                        OnSocket(CredentialRequestMsg(
                                                     lf.op, r.msg), t))]
    /\ UNCHANGED <<call_vars, frame>>

\* get_credential lines 184-195 and hook lines 260-269 in thread t
ThreadRecvCredential(t, pkt) ==
    /\ th[t].pc = "wait_credential"
    /\ LET f == frame_of(t)
           lf == locals[f]
           r == read_expected_msg(pkt, CREDENTIAL_RESPONSE)
       IN  IF r.threw \/ ~r.ok \/ ~credential_approved(r.msg)
           THEN /\ th' = [th EXCEPT ![t].pc = "returned", ![t].ret = 0,
                                    ![t].rcvd = Append(@, pkt)]
                /\ UNCHANGED locals
           ELSE /\ locals' = [locals EXCEPT ![f].credential = r.msg.credential,
                                            ![f].fds = fds_clear(lf.fds),
                                            ![f].agent_socket = 0,
                                            ![f].owner = t]
                /\ th' = [th EXCEPT ![t].pc = "wait_elevation",
                                    ![t].rcvd = Append(@, pkt),
                                    ![t].sent = Append(@,
                                        OnSocket(ElevationRequestMsg(
                                            lf.op, r.msg.credential, lf.fds),
                                            lf.socket))]
    /\ UNCHANGED <<call_vars, frame>>

\* hook lines 271-286 in thread t
ThreadRecvElevation(t, pkt) ==
    /\ th[t].pc = "wait_elevation"
    /\ LET f == frame_of(t)
           lf == locals[f]
           r == read_expected_msg_with_fd(pkt, ELEVATION_RESPONSE, lf.fds)
           u == unwrap_result(r.msg, r.fds)
       IN  /\ locals' = [locals EXCEPT ![f].fds = r.fds, ![f].owner = t]
           /\ IF r.threw \/ ~r.ok \/ u.abort
              THEN th' = [th EXCEPT ![t].pc = "returned", ![t].ret = 0,
                                    ![t].rcvd = Append(@, pkt)]
              ELSE th' = [th EXCEPT ![t].pc = "returned", ![t].ret = 0,
                                    ![t].rcvd = Append(@, pkt),
                                    ![t].result = u.result]
    /\ UNCHANGED <<call_vars, frame>>

ThreadIntercept == \E t \in Threads : ThreadSafeHook(t)

ThreadChallengeArrives ==
    \E t \in Threads :
        /\ th[t].pc = "wait_challenge"
        /\ \E pkt \in ThreadChallengePackets : ThreadRecvChallenge(t, pkt)

ThreadCredentialArrives ==
    \E t \in Threads :
        /\ th[t].pc = "wait_credential"
        /\ \E pkt \in ThreadCredentialPackets : ThreadRecvCredential(t, pkt)

ThreadElevationArrives ==
    \E t \in Threads :
        /\ th[t].pc = "wait_elevation"
        /\ \E pkt \in ThreadElevationPackets(t) : ThreadRecvElevation(t, pkt)

NextThreads ==
    \/ ThreadIntercept
    \/ ThreadChallengeArrives
    \/ ThreadCredentialArrives
    \/ ThreadElevationArrives

SpecThreads == InitThreads /\ [][NextThreads]_vars

\* thread t is between two steps of its negotiation
ThreadInNegotiation(t) ==
    th[t].pc \in {"wait_challenge", "wait_credential", "wait_elevation"}

\* the messages thread t sends when it runs alone and receives th[t].rcvd
AloneSent(t) ==
    LET m == marshal_fds(th[t].built_op, <<>>, ThreadFsEnv(t))
        r == th[t].rcvd
        ok1 == Len(r) >= 1 /\ WellFormed(r[1], CHALLENGE_RESPONSE)
        ok2 == /\ ok1 /\ Len(r) >= 2
               /\ WellFormed(r[2], CREDENTIAL_RESPONSE)
               /\ r[2].msg.status = "APPROVED"
        s1 == <<OnSocket(ChallengeRequestMsg, t)>>
        s2 == IF ok1
              THEN <<OnSocket(CredentialRequestMsg(m.op, r[1].msg), t)>>
              ELSE <<>>
        s3 == IF ok2
              THEN <<OnSocket(ElevationRequestMsg(
                                  m.op, r[2].msg.credential, m.fds), t)>>
              ELSE <<>>
    IN  IF th[t].pc = "idle" THEN <<>> ELSE s1 \o s2 \o s3

\* the result thread t returns when it runs alone and receives th[t].rcvd
AloneResult(t) ==
    LET r == th[t].rcvd
    IN  IF Len(r) = 3 /\ ValidElevation(r[3])
        THEN LET u == unwrap_result(r[3].msg, r[3].fds)
             IN  IF u.abort THEN th[t].real_result ELSE u.result
        ELSE th[t].real_result

\* C14: under every interleaving of the threads' steps, each thread sends
\* the messages, on connections it opened itself, and returns the result it
\* would send and return running alone with the same responses; the frame a
\* thread's call uses was last stored into by that thread and is used by no
\* other thread that is inside a call.
C14_ThreadsIsolated ==
    \A t \in Threads :
        /\ th[t].sent = AloneSent(t)
        /\ \A i \in 1..Len(th[t].sent) : th[t].sent[i].socket = t
        /\ th[t].pc = "returned" => th[t].result = AloneResult(t)
        /\ ThreadInNegotiation(t) =>
              /\ locals[frame_of(t)].owner = t
              /\ \A u \in Threads \ {t} :
                    ThreadInNegotiation(u) => frame_of(u) # frame_of(t)

\* two threads are inside the negotiation at the same time, with different
\* challenges, one of them past its Credential exchange
C14_Witness ==
    /\ th[1].pc = "wait_elevation"
    /\ th[2].pc = "wait_credential"
    /\ th[1].rcvd[1].msg.nonce # th[2].rcvd[1].msg.nonce
    /\ th[1].sent[3].msg.op # th[2].sent[2].msg.op

====
